---- MODULE Spec2Model ----
(***************************************************************************)
(* Model of the Bigdata search agent of the financial-agent-demo cookbook: *)
(* the LangGraph workflow of graph.py (generate_search_plan, the parallel  *)
(* execute_search_strategy tasks, gather_search_results and                *)
(* compile_final_results), the tool wrappers of tools.py and the async     *)
(* adapters of utils.py with their shared, lock-guarded vendor client.     *)
(*                                                                         *)
(* Coroutines run on one asyncio event loop, so a coroutine is interrupted *)
(* only at an await: every action of the agent is the code between two     *)
(* awaits.                                                                 *)
(*                                                                         *)
(* The module also models, each with variables and a specification of its  *)
(* own, the how-to scripts of the repository: the bulk upload and          *)
(* analytics download (SpecBulk), the news pipeline runner (SpecPipeline), *)
(* the premium sources search (SpecPremium), the company ID lookup         *)
(* (SpecCompany), the daily company news collection (SpecDaily) and the    *)
(* download of annotated documents (SpecDownload); and two functions of    *)
(* the agent taken alone, the cleaning                                     *)
(* of tool parameters (SpecClean) and the construction of a query from its *)
(* text and filters (SpecQuery). A specification starts the programs it    *)
(* is not about idle, and no action of it changes their variables.         *)
(***************************************************************************)
EXTENDS Integers, Sequences, FiniteSets, TLC

\* ---------------------------------------------------------------- bounds
\* Largest number of strategies the planner returns in one run.
MaxStrategies == 2
\* Largest number of vendor calls all strategies of one run ask for together.
MaxPlanQueries == 2
\* Largest number of search queries of the strategy of a single-strategy run.
MaxQueries == 3

\* ------------------------------------------------------ program constants
\* asyncio.sleep(1.0) between the queries of one batch, in seconds.
DelaySeconds == 1

\* None, for a client reference or the lock holder (clients and tasks are
\* numbered from 1).
None == 0
\* No exception in hand.
NoException == <<>>
\* state.get("source_metadata", {})
NoMetadata == [total_searches |-> -1, successful_searches |-> -1]

\* ------------------------------------------------------- exception text
\* Exception messages are sequences of characters, so that lower-casing and
\* substring search are computed as str.lower() and the `in` operator do.
UpperChars ==
    <<"A","B","C","D","E","F","G","H","I","J","K","L","M",
      "N","O","P","Q","R","S","T","U","V","W","X","Y","Z">>
LowerChars ==
    <<"a","b","c","d","e","f","g","h","i","j","k","l","m",
      "n","o","p","q","r","s","t","u","v","w","x","y","z">>

LowerChar(c) ==
    IF \E n \in 1..Len(UpperChars) : UpperChars[n] = c
    THEN LowerChars[CHOOSE n \in 1..Len(UpperChars) : UpperChars[n] = c]
    ELSE c

\* str.lower()
ToLower(s) == [n \in 1..Len(s) |-> LowerChar(s[n])]

\* `sub in s` for strings
Contains(sub, s) ==
    \E n \in 0..(Len(s) - Len(sub)) : SubSeq(s, n + 1, n + Len(sub)) = sub

\* ['authentication', 'unauthorized', 'token', 'jwt', 'login']
AuthErrorWords ==
    { <<"a","u","t","h","e","n","t","i","c","a","t","i","o","n">>,
      <<"u","n","a","u","t","h","o","r","i","z","e","d">>,
      <<"t","o","k","e","n">>,
      <<"j","w","t">>,
      <<"l","o","g","i","n">> }

\* The messages the vendor client is made to raise in this model.
MsgInvalidJWT == <<"I","n","v","a","l","i","d"," ","J","W","T">>
MsgUnauthorized == <<"4","0","1"," ","U","n","a","u","t","h","o","r","i","z","e","d">>
MsgTimeout == <<"R","e","a","d"," ","t","i","m","e","o","u","t">>

ErrorMessages == {MsgInvalidJWT, MsgUnauthorized, MsgTimeout}

\* any(auth_error in error_str for auth_error in [...]) with error_str = str(e).lower()
IsAuthErrorLowerless(e) == \E w \in AuthErrorWords : Contains(w, e)
IsAuthError(e) == \E w \in AuthErrorWords : Contains(w, ToLower(e))

\* ------------------------------------------------------------ strategies
ContentTools == {"news", "transcripts", "filings", "universal"}

\* keys of tool_map in execute_search_strategy
tool_map == ContentTools \cup {"knowledge_graph"}

\* A tool_type the planner may emit that tool_map does not know
\* (SearchStrategy.tool_type is any str).
UnknownTool == "web"

\* A strategy: its tool type, the number of its search queries (query n is
\* identified by n), whether its cleaned parameters pass the tool's
\* argument schema (a str where the tool expects List[str] does not) and,
\* for the knowledge graph, whether its search_type is one of "companies",
\* "sources", "autosuggest".
StrategySpace(content, maxq) ==
    [tool_type : content, nq : 0..maxq, params_ok : BOOLEAN,
     search_type_ok : {TRUE}]
    \cup [tool_type : {"knowledge_graph"}, nq : {1}, params_ok : {TRUE},
          search_type_ok : BOOLEAN]
    \cup [tool_type : {"knowledge_graph"}, nq : {1}, params_ok : {FALSE},
          search_type_ok : {TRUE}]
    \cup [tool_type : {UnknownTool}, nq : {1}, params_ok : {TRUE},
          search_type_ok : {TRUE}]

\* The number of vendor calls the tool's adapter makes when nothing stops
\* it: one per search query, one lookup for the knowledge graph.
Batch(s) == IF s.tool_type = "knowledge_graph" THEN 1 ELSE s.nq

RECURSIVE PlanQueries(_)
PlanQueries(plan) ==
    IF plan = <<>> THEN 0
    ELSE Batch(plan[Len(plan)]) + PlanQueries(SubSeq(plan, 1, Len(plan) - 1))

\* The planner's answers of a run with several strategies. The four content
\* adapters of utils.py share one control flow, so the content strategies of
\* these runs are news strategies; single-strategy runs cover every tool.
Plans ==
    { plan \in UNION { [1..n -> StrategySpace({"news"}, MaxPlanQueries)] :
                          n \in 1..MaxStrategies } :
        PlanQueries(plan) <= MaxPlanQueries }

\* The planner's answers of a run with a single strategy of a known tool.
BatchPlans ==
    { plan \in [1..1 -> StrategySpace(ContentTools, MaxQueries)] :
        plan[1].tool_type \in tool_map }

VARIABLES
    llm_output,          \* the strategies the planner model will answer with
    phase,               \* the node(s) of the main graph now running
    search_strategies,   \* BigdataSearchState.search_strategies
    completed_searches,  \* BigdataSearchState.completed_searches
    source_metadata,     \* BigdataSearchState.source_metadata
    search_results_str,  \* the sections compile_final_results builds
    pc,                  \* position of each execute_search_strategy task
    qidx,                \* index of the query the task's batch is at
    all_results,         \* all_results of the task's search function
    exc,                 \* the exception the task is handling
    gap,                 \* seconds slept since the previous query was issued
    bigdata,             \* the task's local `bigdata` (client it holds)
    got_in,              \* resets seen before the task received its client
    vendor_calls,        \* vendor search calls the task has issued
    tool_calls,          \* times the task's tool body was entered
    failed_queries,      \* queries of the task whose vendor call raised
    bigdata_client,      \* utils._bigdata_client
    lock,                \* holder of utils._bigdata_client_lock
    made_in,             \* made_in[c]: resets seen before client c was built
    resets               \* number of reset_bigdata_client() calls done

agentVars ==
    <<llm_output, phase, search_strategies, completed_searches, source_metadata,
      search_results_str, pc, qidx, all_results, exc, gap, bigdata, got_in,
      vendor_calls, tool_calls, failed_queries, bigdata_client, lock,
      made_in, resets>>

wfVars == <<llm_output, search_strategies, source_metadata, search_results_str>>
clientVars == <<bigdata_client, lock, made_in, resets>>

Tasks == DOMAIN pc

\* ------------------------------------------------- the how-to scripts
\* batch_file_upload.py and batch_file_analytics_download.py
VARIABLES
    bulk_script,         \* which of the two scripts runs: "upload", "download"
    input_rows,          \* the status column of the input rows, one per file
    max_concurrency,     \* max_workers of the ThreadPoolExecutor
    bulk_pc,             \* position of the main thread of bulk_*()
    future,              \* state of the future submitted for each input row
    attempt,             \* `attempt` of each worker's retry loop
    calls,               \* vendor calls each worker has made
    slept,               \* the time.sleep() arguments of each worker, in order
    returned,            \* the status each worker function returned
    result_csv           \* the rows written to the result CSV, in order

bulkVars == <<bulk_script, input_rows, max_concurrency, bulk_pc, future, attempt,
              calls, slept, returned, result_csv>>

BulkIdle ==
    /\ bulk_script = "none"
    /\ input_rows = <<>>
    /\ max_concurrency = 0
    /\ bulk_pc = "closed"
    /\ future = <<>>
    /\ attempt = <<>>
    /\ calls = <<>>
    /\ slept = <<>>
    /\ returned = <<>>
    /\ result_csv = <<>>

\* news_by_topics/run_news_pipeline.py
VARIABLES
    api_key,             \* whether BIGDATA_API_KEY is set
    logs_dir,            \* whether the directory logs/ exists
    files,               \* the input and output files that exist
    pipeline_pc,         \* position of main()
    started,             \* the scripts started so far, in order
    returncodes,         \* how each started script ended, in order
    exit_status          \* the exit status of the pipeline process

pipelineVars == <<api_key, logs_dir, files, pipeline_pc, started, returncodes,
                  exit_status>>

\* The process has not exited.
NotExited == -1

PipelineIdle ==
    /\ api_key = FALSE
    /\ logs_dir = FALSE
    /\ files = {}
    /\ pipeline_pc = "exited"
    /\ started = <<>>
    /\ returncodes = <<>>
    /\ exit_status = NotExited

\* graph.py, _clean_tool_parameters()
VARIABLES
    params,              \* the `params` argument: strategy.parameters
    clean_pc,            \* "call", then "returned" or "raised"
    cleaned              \* the dictionary the function returned

cleanVars == <<params, clean_pc, cleaned>>

CleanIdle ==
    /\ params = <<>>
    /\ clean_pc = "idle"
    /\ cleaned = <<>>

\* utils.py, the query construction of the four content search functions
VARIABLES
    adapter,             \* which search function is called
    query,               \* the text of the query, a string of characters
    filters,             \* the filter arguments that are given (non-empty)
    query_pc,            \* "call", then "searched" or "skipped"
    search_query         \* the query object handed to bigdata.search.new()

queryVars == <<adapter, query, filters, query_pc, search_query>>

QueryIdle ==
    /\ adapter = "none"
    /\ query = <<>>
    /\ filters = {}
    /\ query_pc = "idle"
    /\ search_query = <<>>

\* search_in_premium_sources.py, search_premium_sources()
VARIABLES
    document_types,      \* the document_types argument
    primary_response,    \* what the vendor answers to the primary search
    secondary_response,  \* what it answers to the negative-source search
    premium_pc,          \* "call", "primary_done", "returned"
    search_calls,        \* the searches performed, in order
    negative_source_filter,  \* the source filter of the secondary search
    processed_documents, \* the first element of the returned tuple
    secondary_search_required  \* the second element of the returned tuple

premiumVars == <<document_types, primary_response, secondary_response,
                 premium_pc, search_calls, negative_source_filter,
                 processed_documents, secondary_search_required>>

PremiumIdle ==
    /\ document_types = {}
    /\ primary_response = <<>>
    /\ secondary_response = <<>>
    /\ premium_pc = "idle"
    /\ search_calls = <<>>
    /\ negative_source_filter = {}
    /\ processed_documents = <<>>
    /\ secondary_search_required = FALSE

\* news_by_topics/get_company_ids.py, main()
VARIABLES
    companies,           \* the rows read_companies_csv() kept
    lookup_pass,         \* the lookup pass main() is at
    ravenpack_id,        \* company_record['ravenpack_id'] of each row
    all_companies,       \* all_companies, as indices of rows
    seen_companies,      \* seen_companies
    found_by,            \* the (row, identifier) lookups that returned an ID
    company_ids_csv      \* the rows written to output/company_ids.csv

companyVars == <<companies, lookup_pass, ravenpack_id, all_companies,
                 seen_companies, found_by, company_ids_csv>>

CompanyIdle ==
    /\ companies = <<>>
    /\ lookup_pass = 0
    /\ ravenpack_id = <<>>
    /\ all_companies = <<>>
    /\ seen_companies = {}
    /\ found_by = {}
    /\ company_ids_csv = <<>>

\* company_daily_news/company_daily_news.py, main()
VARIABLES
    dates,               \* the dates to process, numbered in their order
    date_index,          \* the date the loop is at
    daily_results,       \* daily_results, the result stored for each date
    total_documents,     \* total_documents
    daily_pc,            \* "dates", "per_date", "done"
    overall_logged,      \* the overall statistics are logged
    per_date_lines,      \* the dates whose line of the breakdown is logged
    daily_exit           \* the exit status of the process

dailyVars == <<dates, date_index, daily_results, total_documents, daily_pc,
               overall_logged, per_date_lines, daily_exit>>

DailyIdle ==
    /\ dates = <<>>
    /\ date_index = 0
    /\ daily_results = <<>>
    /\ total_documents = 0
    /\ daily_pc = "idle"
    /\ overall_logged = FALSE
    /\ per_date_lines = <<>>
    /\ daily_exit = NotExited

\* retrieve_entire_articles/retrieve_entire_articles.py,
\* download_annotated_documents()
VARIABLES
    doc_headlines,       \* the headline of each document of search_result
    worker_pc,           \* where the worker of each document is
    news_data,           \* the files of the date folder, by their path
    successful_downloads,\* successful_downloads
    failed_downloads,    \* failed_downloads
    download_pc          \* "call", "collect", "done"

downloadVars == <<doc_headlines, worker_pc, news_data, successful_downloads,
                  failed_downloads, download_pc>>

DownloadIdle ==
    /\ doc_headlines = <<>>
    /\ worker_pc = <<>>
    /\ news_data = <<>>
    /\ successful_downloads = 0
    /\ failed_downloads = 0
    /\ download_pc = "idle"

\* What each program leaves alone: the state of all the others.
exceptAgent ==
    <<bulkVars, pipelineVars, cleanVars, queryVars, premiumVars,
      companyVars, dailyVars, downloadVars>>
exceptBulk ==
    <<agentVars, pipelineVars, cleanVars, queryVars, premiumVars,
      companyVars, dailyVars, downloadVars>>
exceptPipeline ==
    <<agentVars, bulkVars, cleanVars, queryVars, premiumVars,
      companyVars, dailyVars, downloadVars>>
exceptClean ==
    <<agentVars, bulkVars, pipelineVars, queryVars, premiumVars,
      companyVars, dailyVars, downloadVars>>
exceptQuery ==
    <<agentVars, bulkVars, pipelineVars, cleanVars, premiumVars,
      companyVars, dailyVars, downloadVars>>
exceptPremium ==
    <<agentVars, bulkVars, pipelineVars, cleanVars, queryVars,
      companyVars, dailyVars, downloadVars>>
exceptCompany ==
    <<agentVars, bulkVars, pipelineVars, cleanVars, queryVars,
      premiumVars, dailyVars, downloadVars>>
exceptDaily ==
    <<agentVars, bulkVars, pipelineVars, cleanVars, queryVars,
      premiumVars, companyVars, downloadVars>>
exceptDownload ==
    <<agentVars, bulkVars, pipelineVars, cleanVars, queryVars,
      premiumVars, companyVars, dailyVars>>

vars ==
    <<agentVars, bulkVars, pipelineVars, cleanVars, queryVars,
      premiumVars, companyVars, dailyVars, downloadVars>>

ExceptAgentIdle ==
    /\ BulkIdle /\ PipelineIdle /\ CleanIdle
    /\ QueryIdle /\ PremiumIdle /\ CompanyIdle
    /\ DailyIdle /\ DownloadIdle

InitState ==
    /\ phase = "generate_search_plan"
    /\ search_strategies = <<>>
    /\ completed_searches = <<>>
    /\ source_metadata = NoMetadata
    /\ search_results_str = <<>>
    /\ pc = <<>>
    /\ qidx = <<>>
    /\ all_results = <<>>
    /\ exc = <<>>
    /\ gap = <<>>
    /\ bigdata = <<>>
    /\ got_in = <<>>
    /\ vendor_calls = <<>>
    /\ tool_calls = <<>>
    /\ failed_queries = <<>>
    /\ bigdata_client = None
    /\ lock = None
    /\ made_in = <<>>
    /\ resets = 0

Init ==
    /\ llm_output \in Plans
    /\ InitState
    /\ ExceptAgentIdle

InitBatch ==
    /\ llm_output \in BatchPlans
    /\ InitState
    /\ ExceptAgentIdle

\* The agent is not run.
AgentIdle ==
    /\ llm_output = <<>>
    /\ InitState

ExceptBulkIdle ==
    /\ AgentIdle /\ PipelineIdle /\ CleanIdle
    /\ QueryIdle /\ PremiumIdle /\ CompanyIdle
    /\ DailyIdle /\ DownloadIdle

ExceptPipelineIdle ==
    /\ AgentIdle /\ BulkIdle /\ CleanIdle
    /\ QueryIdle /\ PremiumIdle /\ CompanyIdle
    /\ DailyIdle /\ DownloadIdle

ExceptCleanIdle ==
    /\ AgentIdle /\ BulkIdle /\ PipelineIdle
    /\ QueryIdle /\ PremiumIdle /\ CompanyIdle
    /\ DailyIdle /\ DownloadIdle

ExceptQueryIdle ==
    /\ AgentIdle /\ BulkIdle /\ PipelineIdle
    /\ CleanIdle /\ PremiumIdle /\ CompanyIdle
    /\ DailyIdle /\ DownloadIdle

ExceptPremiumIdle ==
    /\ AgentIdle /\ BulkIdle /\ PipelineIdle
    /\ CleanIdle /\ QueryIdle /\ CompanyIdle
    /\ DailyIdle /\ DownloadIdle

ExceptCompanyIdle ==
    /\ AgentIdle /\ BulkIdle /\ PipelineIdle
    /\ CleanIdle /\ QueryIdle /\ PremiumIdle
    /\ DailyIdle /\ DownloadIdle

ExceptDailyIdle ==
    /\ AgentIdle /\ BulkIdle /\ PipelineIdle
    /\ CleanIdle /\ QueryIdle /\ PremiumIdle
    /\ CompanyIdle /\ DownloadIdle

ExceptDownloadIdle ==
    /\ AgentIdle /\ BulkIdle /\ PipelineIdle
    /\ CleanIdle /\ QueryIdle /\ PremiumIdle
    /\ CompanyIdle /\ DailyIdle


\* ------------------------------------------------------- state records
\* What a tool returns: the formatted results, or its "No ... found" line
\* when the adapter returned an empty list.
FormatResults(res) ==
    [kind |-> IF res = <<>> THEN "no_results" ELSE "results", items |-> res]

\* f"Error executing ... search: {str(e)}", returned by the tool's except.
ErrorString == [kind |-> "error_string", items |-> <<>>]

\* SearchResult(...) of the try branch of execute_search_strategy.
SuccessResult(i, raw_results) ==
    [strategy |-> i, results |-> <<raw_results>>, success |-> TRUE]

\* SearchResult(...) of the except branch of execute_search_strategy.
FailedResult(i) ==
    [strategy |-> i, results |-> <<>>, success |-> FALSE]

\* The `except Exception as e` of a tool: the exception that left the
\* adapter is returned as an "Error executing ..." string, which the node
\* records as the result of a successful search.
ToolReraises(i) == FailedResult(i)
ToolExcept(i) == SuccessResult(i, ErrorString)

\* Annotated[List[SearchResult], operator.add]
ReducerOverwrite(old, update) == update
Reducer(old, update) == old \o update

\* Send("execute_search_strategy", {...}) for s in state["search_strategies"]
initiate_parallel_searches(strategies) == 1..Len(strategies)

\* ----------------------------------------------------------- planning
\* generate_search_plan returns the planner's strategies; the conditional
\* edge then sends one execute_search_strategy task per strategy.
GenerateSearchPlan ==
    /\ UNCHANGED exceptAgent
    /\ phase = "generate_search_plan"
    /\ LET plan == llm_output
           sent == initiate_parallel_searches(plan) IN
        /\ search_strategies' = plan
        /\ pc' = [i \in sent |-> "dispatched"]
        /\ qidx' = [i \in sent |-> 0]
        /\ all_results' = [i \in sent |-> <<>>]
        /\ exc' = [i \in sent |-> NoException]
        /\ gap' = [i \in sent |-> 0]
        /\ bigdata' = [i \in sent |-> None]
        /\ got_in' = [i \in sent |-> 0]
        /\ vendor_calls' = [i \in sent |-> 0]
        /\ tool_calls' = [i \in sent |-> 0]
        /\ failed_queries' = [i \in sent |-> {}]
    /\ phase' = "execute_search_strategy"
    /\ UNCHANGED <<llm_output, completed_searches, source_metadata,
                   search_results_str>>
    /\ UNCHANGED clientVars

\* -------------------------------------------- execute_search_strategy
Running(i) ==
    /\ phase = "execute_search_strategy"
    /\ i \in Tasks

\* The node returns {"completed_searches": [search_result]}.
Return(i, result) ==
    /\ completed_searches' = Reducer(completed_searches, <<result>>)
    /\ pc' = [pc EXCEPT ![i] = "done"]

\* tool_map.get(tool_type) finds nothing: the node raises ValueError, which
\* nothing catches, and the graph run ends with that exception.
SelectToolFails(i) ==
    /\ UNCHANGED exceptAgent
    /\ Running(i)
    /\ pc[i] = "dispatched"
    /\ search_strategies[i].tool_type \notin tool_map
    /\ pc' = [pc EXCEPT ![i] = "raised"]
    /\ phase' = "aborted"
    /\ UNCHANGED <<completed_searches, qidx, all_results, exc, gap, bigdata, got_in,
                   vendor_calls, tool_calls, failed_queries>>
    /\ UNCHANGED wfVars
    /\ UNCHANGED clientVars

\* selected_tool.ainvoke(tool_params) raises before the tool body runs (the
\* parameters do not fit the tool's argument schema): the except branch
\* builds the failed SearchResult.
InvokeRaises(i) ==
    /\ UNCHANGED exceptAgent
    /\ Running(i)
    /\ pc[i] = "dispatched"
    /\ search_strategies[i].tool_type \in tool_map
    /\ ~search_strategies[i].params_ok
    /\ Return(i, FailedResult(i))
    /\ UNCHANGED <<phase, qidx, all_results, exc, gap, bigdata, got_in,
                   vendor_calls, tool_calls, failed_queries>>
    /\ UNCHANGED wfVars
    /\ UNCHANGED clientVars

\* selected_tool.ainvoke(tool_params) enters the tool, whose adapter first
\* awaits get_bigdata_client(); bigdata_knowledge_graph_async raises
\* ValueError before that when search_type is not one it knows.
InvokeTool(i) ==
    /\ UNCHANGED exceptAgent
    /\ Running(i)
    /\ pc[i] = "dispatched"
    /\ search_strategies[i].tool_type \in tool_map
    /\ search_strategies[i].params_ok
    /\ tool_calls' = [tool_calls EXCEPT ![i] = @ + 1]
    /\ IF search_strategies[i].search_type_ok
       THEN /\ pc' = [pc EXCEPT ![i] = "get_client"]
            /\ UNCHANGED completed_searches
       ELSE Return(i, ToolExcept(i))
    /\ UNCHANGED <<phase, qidx, all_results, exc, gap,
                   bigdata, got_in, vendor_calls, failed_queries>>
    /\ UNCHANGED wfVars
    /\ UNCHANGED clientVars

\* The head of `for query in search_queries` with all_results = res: the
\* next query is handed to the executor after g seconds of sleep, or the
\* adapter returns, the tool formats the list and the node returns its
\* SearchResult.
ProceedFirstOnly(i, res, g) ==
    /\ all_results' = [all_results EXCEPT ![i] = res]
    /\ IF qidx[i] < Batch(search_strategies[i]) /\ qidx[i] < 1
       THEN /\ qidx' = [qidx EXCEPT ![i] = @ + 1]
            /\ vendor_calls' = [vendor_calls EXCEPT ![i] = @ + 1]
            /\ gap' = [gap EXCEPT ![i] = g]
            /\ pc' = [pc EXCEPT ![i] = "running"]
            /\ UNCHANGED completed_searches
       ELSE /\ Return(i, SuccessResult(i, FormatResults(res)))
            /\ UNCHANGED <<qidx, vendor_calls, gap>>
Proceed(i, res, g) ==
    /\ all_results' = [all_results EXCEPT ![i] = res]
    /\ IF qidx[i] < Batch(search_strategies[i])
       THEN /\ qidx' = [qidx EXCEPT ![i] = @ + 1]
            /\ vendor_calls' = [vendor_calls EXCEPT ![i] = @ + 1]
            /\ gap' = [gap EXCEPT ![i] = g]
            /\ pc' = [pc EXCEPT ![i] = "running"]
            /\ UNCHANGED completed_searches
       ELSE /\ Return(i, SuccessResult(i, FormatResults(res)))
            /\ UNCHANGED <<qidx, vendor_calls, gap>>

\* get_bigdata_client(): `async with _bigdata_client_lock`, then either the
\* existing client is returned at once or its construction is handed to
\* the executor while the lock stays held.
LockFreeAlways == TRUE
LockFree == lock = None

GetClient(i) ==
    /\ UNCHANGED exceptAgent
    /\ Running(i)
    /\ pc[i] = "get_client"
    /\ LockFree
    /\ IF bigdata_client # None
       THEN /\ bigdata' = [bigdata EXCEPT ![i] = bigdata_client]
            /\ got_in' = [got_in EXCEPT ![i] = resets]
            /\ Proceed(i, all_results[i], 0)
            /\ UNCHANGED lock
       ELSE /\ lock' = i
            /\ pc' = [pc EXCEPT ![i] = "constructing"]
            /\ UNCHANGED <<bigdata, got_in, completed_searches, qidx, all_results,
                           vendor_calls, gap>>
    /\ UNCHANGED <<phase, exc, tool_calls, failed_queries, bigdata_client,
                   made_in, resets>>
    /\ UNCHANGED wfVars

\* Bigdata(username, password) returned: the client is stored, the lock is
\* released and the adapter starts its batch.
ConstructDone(i) ==
    /\ UNCHANGED exceptAgent
    /\ Running(i)
    /\ pc[i] = "constructing"
    /\ LET c == Len(made_in) + 1 IN
        /\ bigdata_client' = c
        /\ made_in' = Append(made_in, resets)
        /\ bigdata' = [bigdata EXCEPT ![i] = c]
        /\ got_in' = [got_in EXCEPT ![i] = resets]
    /\ lock' = IF lock = i THEN None ELSE lock
    /\ Proceed(i, all_results[i], 0)
    /\ UNCHANGED <<phase, exc, tool_calls, failed_queries, resets>>
    /\ UNCHANGED wfVars

\* The credentials are missing or Bigdata(...) raised: the lock is released,
\* the exception leaves the adapter, the tool's except turns it into an
\* "Error executing ..." string and the node records a successful search.
ConstructFails(i) ==
    /\ UNCHANGED exceptAgent
    /\ Running(i)
    /\ pc[i] = "constructing"
    /\ lock' = IF lock = i THEN None ELSE lock
    /\ Return(i, ToolExcept(i))
    /\ UNCHANGED <<phase, qidx, all_results, exc, gap, bigdata, got_in, vendor_calls,
                   tool_calls, failed_queries, bigdata_client, made_in, resets>>
    /\ UNCHANGED wfVars

\* search.run(max_results) returned: the results are formatted and added,
\* and a batch of more than one query sleeps.
QueryReturns(i) ==
    /\ UNCHANGED exceptAgent
    /\ Running(i)
    /\ pc[i] = "running"
    /\ LET res == Append(all_results[i], qidx[i]) IN
       IF Batch(search_strategies[i]) > 1
       THEN /\ all_results' = [all_results EXCEPT ![i] = res]
            /\ pc' = [pc EXCEPT ![i] = "sleeping"]
            /\ UNCHANGED <<completed_searches, qidx, vendor_calls, gap>>
       ELSE Proceed(i, res, 0)
    /\ UNCHANGED <<phase, exc, bigdata, got_in, tool_calls, failed_queries>>
    /\ UNCHANGED wfVars
    /\ UNCHANGED clientVars

\* asyncio.sleep(1.0) is over.
SleepDone(i) ==
    /\ UNCHANGED exceptAgent
    /\ Running(i)
    /\ pc[i] = "sleeping"
    /\ Proceed(i, all_results[i], DelaySeconds)
    /\ UNCHANGED <<phase, exc, bigdata, got_in, tool_calls, failed_queries>>
    /\ UNCHANGED wfVars
    /\ UNCHANGED clientVars

\* The vendor call raised an exception with message msg.
QueryRaises(i, msg) ==
    /\ UNCHANGED exceptAgent
    /\ Running(i)
    /\ pc[i] = "running"
    /\ exc' = [exc EXCEPT ![i] = msg]
    /\ failed_queries' = [failed_queries EXCEPT ![i] = @ \cup {qidx[i]}]
    /\ pc' = [pc EXCEPT ![i] = "except"]
    /\ UNCHANGED <<phase, completed_searches, qidx, all_results, gap, bigdata, got_in,
                   vendor_calls, tool_calls>>
    /\ UNCHANGED wfVars
    /\ UNCHANGED clientVars

\* reset_bigdata_client(): _bigdata_client = None under the lock.
ResetClient ==
    /\ bigdata_client' = None
    /\ resets' = resets + 1
    /\ UNCHANGED <<lock, made_in>>

\* `except Exception as e`: an authentication error resets the shared
\* client (waiting for the lock when it is held), then `continue`.
HandleBreaks(i) ==
    /\ UNCHANGED exceptAgent
    /\ Running(i)
    /\ pc[i] = "except"
    /\ exc' = [exc EXCEPT ![i] = NoException]
    /\ Return(i, SuccessResult(i, FormatResults(all_results[i])))
    /\ UNCHANGED <<phase, qidx, all_results, vendor_calls, gap, bigdata, got_in,
                   tool_calls, failed_queries>>
    /\ UNCHANGED wfVars
    /\ UNCHANGED clientVars
HandleException(i) ==
    /\ UNCHANGED exceptAgent
    /\ Running(i)
    /\ pc[i] = "except"
    /\ exc' = [exc EXCEPT ![i] = NoException]
    /\ IF IsAuthError(exc[i])
       THEN IF LockFree
            THEN /\ ResetClient
                 /\ Proceed(i, all_results[i], 0)
            ELSE /\ pc' = [pc EXCEPT ![i] = "reset_wait"]
                 /\ UNCHANGED <<completed_searches, qidx, all_results,
                                vendor_calls, gap>>
                 /\ UNCHANGED clientVars
       ELSE /\ Proceed(i, all_results[i], 0)
            /\ UNCHANGED clientVars
    /\ UNCHANGED <<phase, bigdata, got_in, tool_calls, failed_queries>>
    /\ UNCHANGED wfVars

\* reset_bigdata_client() got the lock it was waiting for.
ResetAcquired(i) ==
    /\ UNCHANGED exceptAgent
    /\ Running(i)
    /\ pc[i] = "reset_wait"
    /\ LockFree
    /\ ResetClient
    /\ Proceed(i, all_results[i], 0)
    /\ UNCHANGED <<phase, exc, bigdata, got_in, tool_calls, failed_queries>>
    /\ UNCHANGED wfVars

\* ------------------------------------------- gathering and compilation
\* The edge execute_search_strategy -> gather_search_results: the next
\* step of the graph starts when every task of this one has returned.
SomeSearchDone == \E i \in Tasks : pc[i] = "done"
AllSearchesDone == \A i \in Tasks : pc[i] = "done"

StartGather ==
    /\ UNCHANGED exceptAgent
    /\ phase = "execute_search_strategy"
    /\ AllSearchesDone
    /\ phase' = "gather_search_results"
    /\ UNCHANGED <<completed_searches, pc, qidx, all_results, exc, gap,
                   bigdata, got_in, vendor_calls, tool_calls, failed_queries>>
    /\ UNCHANGED wfVars
    /\ UNCHANGED clientVars

\* [s for s in completed_searches if s.metadata.get("success", False)]
successful_searches(searches) == SelectSeq(searches, LAMBDA s : s.success)

\* gather_search_results computes source_metadata; the edge to
\* compile_final_results then starts the compilation.
GatherSearchResults ==
    /\ UNCHANGED exceptAgent
    /\ phase = "gather_search_results"
    /\ source_metadata' =
        [total_searches |-> Len(completed_searches),
         successful_searches |-> Len(successful_searches(completed_searches))]
    /\ phase' = "compile_final_results"
    /\ UNCHANGED <<llm_output, search_strategies, search_results_str,
                   completed_searches,
                   pc, qidx, all_results, exc, gap, bigdata, got_in, vendor_calls,
                   tool_calls, failed_queries>>
    /\ UNCHANGED clientVars

\* The section compile_final_results writes for the n-th completed search.
Section(n, search) ==
    [index |-> n,
     strategy |-> search.strategy,
     success |-> search.success,
     body |-> IF search.results # <<>> THEN "Results" ELSE "No results"]

\* for i, search in enumerate(completed_searches, 1): search_results_str += ...
Sections(searches) == [n \in 1..Len(searches) |-> Section(n, searches[n])]

CompileFinalResults ==
    /\ UNCHANGED exceptAgent
    /\ phase = "compile_final_results"
    /\ search_results_str' = Sections(completed_searches)
    /\ phase' = "END"
    /\ UNCHANGED <<llm_output, search_strategies, source_metadata,
                   completed_searches,
                   pc, qidx, all_results, exc, gap, bigdata, got_in, vendor_calls,
                   tool_calls, failed_queries>>
    /\ UNCHANGED clientVars

Next ==
    \/ GenerateSearchPlan
    \/ \E i \in Tasks : SelectToolFails(i)
    \/ \E i \in Tasks : InvokeRaises(i)
    \/ \E i \in Tasks : InvokeTool(i)
    \/ \E i \in Tasks : GetClient(i)
    \/ \E i \in Tasks : ConstructDone(i)
    \/ \E i \in Tasks : ConstructFails(i)
    \/ \E i \in Tasks : QueryReturns(i)
    \/ \E i \in Tasks : SleepDone(i)
    \/ \E i \in Tasks : \E msg \in ErrorMessages : QueryRaises(i, msg)
    \/ \E i \in Tasks : HandleException(i)
    \/ \E i \in Tasks : ResetAcquired(i)
    \/ StartGather
    \/ GatherSearchResults
    \/ CompileFinalResults

Spec == Init /\ [][Next]_vars

\* A run with one strategy: its task never finds the client lock held.
NextBatch ==
    \/ GenerateSearchPlan
    \/ \E i \in Tasks : InvokeRaises(i)
    \/ \E i \in Tasks : InvokeTool(i)
    \/ \E i \in Tasks : GetClient(i)
    \/ \E i \in Tasks : ConstructDone(i)
    \/ \E i \in Tasks : ConstructFails(i)
    \/ \E i \in Tasks : QueryReturns(i)
    \/ \E i \in Tasks : SleepDone(i)
    \/ \E i \in Tasks : \E msg \in ErrorMessages : QueryRaises(i, msg)
    \/ \E i \in Tasks : HandleException(i)
    \/ StartGather
    \/ GatherSearchResults
    \/ CompileFinalResults

SpecBatch == InitBatch /\ [][NextBatch]_vars

\* ------------------------------------------------------------- claims
Done(i) == i \in Tasks /\ pc[i] = "done"

\* The completed search of strategy i is the n-th entry of the list.
IsResultOf(n, i) == completed_searches[n].strategy = i

\* Every vendor call the strategy's tool made raised, and it made one.
VendorSearchFailed(i) ==
    /\ Batch(search_strategies[i]) >= 1
    /\ failed_queries[i] = 1..Batch(search_strategies[i])

\* C1: a failure of an individual search strategy never aborts the
\* workflow: whatever the tool type of a dispatched strategy and whatever
\* its tool call does, the node returns a SearchResult instead of raising,
\* so the run is never ended by an exception of a strategy.
C1_StrategyFailureNeverAborts ==
    /\ phase # "aborted"
    /\ \A i \in Tasks : pc[i] # "raised"

\* C2: every strategy whose vendor search failed is tracked as failed: its
\* SearchResult carries success = False, and source_metadata counts it
\* among the failed searches, never among successful_searches.
C2_FailedSearchTrackedAsFailed ==
    /\ \A n \in 1..Len(completed_searches) :
        VendorSearchFailed(completed_searches[n].strategy)
            => ~completed_searches[n].success
    /\ source_metadata # NoMetadata =>
        source_metadata.successful_searches <=
            Cardinality({ n \in 1..Len(completed_searches) :
                ~VendorSearchFailed(completed_searches[n].strategy) })

\* C3: failed searches are excluded from final compilation: the text that
\* compile_final_results builds holds no section for a completed search
\* whose metadata marks it as failed.
C3_FailedSearchNotCompiled ==
    \A n \in 1..Len(search_results_str) : search_results_str[n].success

\* C4: whatever the interleaving of concurrent get_bigdata_client() calls,
\* between two resets the vendor client is constructed at most once, and
\* all callers served between the same two resets hold the same instance.
C4_ClientConstructedOnce ==
    /\ \A a \in 1..Len(made_in) : \A b \in 1..Len(made_in) :
        made_in[a] = made_in[b] => a = b
    /\ \A i \in Tasks : \A j \in Tasks :
        (bigdata[i] # None /\ bigdata[j] # None /\ got_in[i] = got_in[j])
            => bigdata[i] = bigdata[j]

\* Two tasks were served the one client built before any reset.
C4_Witness ==
    \E i \in Tasks : \E j \in Tasks :
        /\ i # j
        /\ bigdata[i] # None
        /\ bigdata[i] = bigdata[j]
        /\ got_in[i] = 0 /\ got_in[j] = 0
        /\ Len(made_in) = 1

\* The messages of ErrorMessages that hold, in lower case, one of
\* 'authentication', 'unauthorized', 'token', 'jwt', 'login'.
C5_AuthMessages == {MsgInvalidJWT, MsgUnauthorized}

\* C5: the shared client is reset exactly when a vendor query raised an
\* exception whose lower-cased message holds one of the five words (the
\* reset may first wait for the lock); an exception without them leaves the
\* shared client as it is; and the get_bigdata_client() call that follows a
\* reset constructs a client that is new.
C5_ResetExactlyOnAuthError ==
    [][ /\ \A i \in Tasks :
            (pc[i] = "except" /\ i \in DOMAIN pc' /\ pc'[i] # "except") =>
                IF exc[i] \in C5_AuthMessages
                THEN \/ bigdata_client' = None /\ resets' = resets + 1
                     \/ pc'[i] = "reset_wait" /\ resets' = resets
                ELSE /\ bigdata_client' = bigdata_client
                     /\ resets' = resets
                     /\ pc'[i] # "reset_wait"
        /\ resets' # resets =>
            /\ bigdata_client' = None
            /\ \E i \in Tasks :
                /\ pc[i] \in {"except", "reset_wait"} /\ pc'[i] # pc[i]
                /\ pc[i] = "except" => exc[i] \in C5_AuthMessages
        /\ (bigdata_client # None /\ bigdata_client' # bigdata_client) =>
            (bigdata_client' = None /\ resets' # resets)
        /\ \A i \in Tasks :
            (pc[i] = "get_client" /\ bigdata_client = None
                /\ i \in DOMAIN pc' /\ pc'[i] # "get_client")
                => pc'[i] = "constructing"
        /\ (bigdata_client = None /\ bigdata_client' # None) =>
            /\ bigdata_client' \notin { bigdata[i] : i \in Tasks }
            /\ made_in'[bigdata_client'] = resets
      ]_vars

\* A client was reset after an authentication error and the next caller
\* holds a client constructed after that reset.
C5_Witness ==
    /\ resets >= 1
    /\ bigdata_client # None
    /\ made_in[bigdata_client] >= 1
    /\ \E i \in Tasks : bigdata[i] = bigdata_client

\* C6: once all parallel strategy executions of a run have finished,
\* completed_searches holds exactly one SearchResult per generated
\* strategy, whatever the order the executions completed in.
C6_OneResultPerStrategy ==
    phase \in {"gather_search_results", "compile_final_results", "END"} =>
        /\ Len(completed_searches) = Len(search_strategies)
        /\ \A i \in 1..Len(search_strategies) :
            Cardinality({ n \in 1..Len(completed_searches) : IsResultOf(n, i) }) = 1

\* Two strategies completed in the reverse of the order they were sent in.
C6_Witness ==
    /\ phase = "gather_search_results"
    /\ Len(completed_searches) = 2
    /\ IsResultOf(1, 2)
    /\ IsResultOf(2, 1)

\* C7: the phases run in the order planning, strategy execution,
\* gathering, compilation: the executions start only when planning ends,
\* gather_search_results starts only after every dispatched execution has
\* completed, and compile_final_results starts only after
\* gather_search_results has finished.
C7_PhaseOrder ==
    [][ /\ (phase' = "execute_search_strategy" /\ phase # phase') =>
            (phase = "generate_search_plan" /\ search_strategies' = llm_output)
        /\ (phase' = "gather_search_results" /\ phase # phase') =>
            /\ phase = "execute_search_strategy"
            /\ \A i \in Tasks : pc[i] = "done"
            /\ source_metadata = NoMetadata
        /\ (phase' = "compile_final_results" /\ phase # phase') =>
            /\ phase = "gather_search_results"
            /\ source_metadata' # NoMetadata
            /\ search_results_str = <<>>
        /\ (phase' = "END" /\ phase # phase') =>
            phase = "compile_final_results"
        /\ (phase # "execute_search_strategy" /\ phase' = phase) =>
            (pc' = pc /\ completed_searches' = completed_searches)
      ]_vars

\* A run of two strategies went through all four phases.
C7_Witness ==
    /\ phase = "END"
    /\ Len(search_strategies) = 2
    /\ Len(search_results_str) = 2

RECURSIVE SucceededUpTo(_, _)
SucceededUpTo(i, n) ==
    IF n = 0 THEN <<>>
    ELSE IF n \in failed_queries[i]
         THEN SucceededUpTo(i, n - 1)
         ELSE Append(SucceededUpTo(i, n - 1), n)

\* The adapter of task i returned its list to the tool.
Returned(i) == Done(i) /\ tool_calls[i] = 1 /\ bigdata[i] # None

\* C9: in every multi-query search function a query that raises is skipped
\* without aborting the batch: every query of the batch is executed and
\* the function returns the results of exactly the queries that succeeded,
\* in query order.
C9_FailedQuerySkipped ==
    \A i \in Tasks :
        Returned(i) =>
            /\ qidx[i] = Batch(search_strategies[i])
            /\ all_results[i] = SucceededUpTo(i, Batch(search_strategies[i]))
            /\ \E n \in 1..Len(completed_searches) :
                /\ IsResultOf(n, i)
                /\ completed_searches[n].results =
                    <<FormatResults(SucceededUpTo(i, Batch(search_strategies[i])))>>

\* A batch returned the result of a query that followed a failed one.
C9_Witness ==
    \E i \in Tasks :
        /\ Returned(i)
        /\ 1 \in failed_queries[i]
        /\ all_results[i] = <<2>>

\* C10: within one batch of more than one query, a delay of at least one
\* second separates any two consecutive vendor queries.
C10_DelayBetweenQueries ==
    \A i \in Tasks :
        (Batch(search_strategies[i]) > 1 /\ qidx[i] >= 2)
            => gap[i] >= DelaySeconds

\* ============================================================ bulk scripts
\* batch_file_upload.py (bulk_upload_files, upload_file) and
\* batch_file_analytics_download.py (bulk_download_analytics,
\* download_analytics_file): the main thread submits one worker function
\* per input row to a ThreadPoolExecutor and writes one row per future in
\* the order concurrent.futures.as_completed() yields them.

\* Largest number of rows of the input file.
MaxFiles == 2

\* max_try = 5
max_try == 5

UPLOAD_DONE == "UPLOAD_DONE"
UPLOAD_ERROR == "UPLOAD_ERROR"
DOWNLOAD_DONE == "DOWNLOAD_DONE"
DOWNLOAD_ERROR == "DOWNLOAD_ERROR"

\* The status a worker function returns after a successful attempt.
DoneStatus(script) == IF script = "upload" THEN UPLOAD_DONE ELSE DOWNLOAD_DONE
\* The status it returns when the loop ends, and the one the main thread
\* sets when future.result() raises.
ErrorStatus(script) == IF script = "upload" THEN UPLOAD_ERROR ELSE DOWNLOAD_ERROR

\* min(2**attempt, 10)
BackoffUncapped(n) == 2 ^ n
Backoff(n) == IF 2 ^ n < 10 THEN 2 ^ n ELSE 10

\* while attempt < max_try
RetryOnceMore(n) == n <= max_try
Retry(n) == n < max_try

\* The rows of upload_txt are file paths; those of the download script's
\* CSV carry the status the upload (or an earlier download) wrote.
InputRows(script) ==
    UNION { [1..n -> IF script = "upload"
                     THEN {"PATH"}
                     ELSE {UPLOAD_DONE, UPLOAD_ERROR, DOWNLOAD_ERROR}] :
            n \in 0..MaxFiles }

\* bulk_upload_files submits every row; bulk_download_analytics submits a
\* row `if status == UPLOAD_DONE or status == DOWNLOAD_ERROR`.
Submitted(script, rows) ==
    { f \in 1..Len(rows) :
        script = "upload" \/ rows[f] \in {UPLOAD_DONE, DOWNLOAD_ERROR} }

Files == DOMAIN future

InitBulk ==
    /\ bulk_script \in {"upload", "download"}
    /\ input_rows \in InputRows(bulk_script)
    /\ max_concurrency \in 1..MaxFiles
    /\ bulk_pc = "submit"
    /\ future = <<>>
    /\ attempt = <<>>
    /\ calls = <<>>
    /\ slept = <<>>
    /\ returned = <<>>
    /\ result_csv = <<>>
    /\ ExceptBulkIdle

\* The submit loop of bulk_upload_files / bulk_download_analytics.
BulkSubmit ==
    /\ UNCHANGED exceptBulk
    /\ bulk_pc = "submit"
    /\ LET rows == 1..Len(input_rows) IN
        /\ future' = [f \in rows |->
                        IF f \in Submitted(bulk_script, input_rows)
                        THEN "queued" ELSE "none"]
        /\ attempt' = [f \in rows |-> 0]
        /\ calls' = [f \in rows |-> 0]
        /\ slept' = [f \in rows |-> <<>>]
        /\ returned' = [f \in rows |-> ""]
    /\ bulk_pc' = "as_completed"
    /\ UNCHANGED <<bulk_script, input_rows, max_concurrency, result_csv>>

\* A pool thread takes the oldest queued work item and enters the worker
\* function, which makes its first vendor call.
WorkerStart(f) ==
    /\ UNCHANGED exceptBulk
    /\ f \in Files
    /\ future[f] = "queued"
    /\ \A g \in Files : future[g] = "queued" => f <= g
    /\ Cardinality({ g \in Files : future[g] \in {"running", "sleeping"} })
            < max_concurrency
    /\ future' = [future EXCEPT ![f] = "running"]
    /\ calls' = [calls EXCEPT ![f] = @ + 1]
    /\ UNCHANGED <<bulk_script, input_rows, max_concurrency, bulk_pc, attempt,
                   slept, returned, result_csv>>

\* The vendor call of the attempt succeeded: return ..., *_DONE.
AttemptSucceeds(f) ==
    /\ UNCHANGED exceptBulk
    /\ f \in Files
    /\ future[f] = "running"
    /\ returned' = [returned EXCEPT ![f] = DoneStatus(bulk_script)]
    /\ future' = [future EXCEPT ![f] = "returned"]
    /\ UNCHANGED <<bulk_script, input_rows, max_concurrency, bulk_pc, attempt,
                   calls, slept, result_csv>>

\* The vendor call raised an exception the loop catches
\* (BigdataClientRateLimitError in upload_file, any Exception in
\* download_analytics_file): attempt += 1; time.sleep(min(2**attempt, 10)).
AttemptFails(f) ==
    /\ UNCHANGED exceptBulk
    /\ f \in Files
    /\ future[f] = "running"
    /\ attempt' = [attempt EXCEPT ![f] = @ + 1]
    /\ slept' = [slept EXCEPT ![f] = Append(@, Backoff(attempt[f] + 1))]
    /\ future' = [future EXCEPT ![f] = "sleeping"]
    /\ UNCHANGED <<bulk_script, input_rows, max_concurrency, bulk_pc, calls,
                   returned, result_csv>>

\* upload_from_disk raised an exception other than
\* BigdataClientRateLimitError: it leaves upload_file and is stored in the
\* future.
AttemptRaises(f) ==
    /\ UNCHANGED exceptBulk
    /\ f \in Files
    /\ bulk_script = "upload"
    /\ future[f] = "running"
    /\ future' = [future EXCEPT ![f] = "raised"]
    /\ UNCHANGED <<bulk_script, input_rows, max_concurrency, bulk_pc, attempt,
                   calls, slept, returned, result_csv>>

\* time.sleep() is over: the loop condition is tested again.
BackoffDone(f) ==
    /\ UNCHANGED exceptBulk
    /\ f \in Files
    /\ future[f] = "sleeping"
    /\ IF Retry(attempt[f])
       THEN /\ calls' = [calls EXCEPT ![f] = @ + 1]
            /\ future' = [future EXCEPT ![f] = "running"]
            /\ UNCHANGED returned
       ELSE /\ returned' = [returned EXCEPT ![f] = ErrorStatus(bulk_script)]
            /\ future' = [future EXCEPT ![f] = "returned"]
            /\ UNCHANGED calls
    /\ UNCHANGED <<bulk_script, input_rows, max_concurrency, bulk_pc, attempt,
                   slept, result_csv>>

Written(f) == \E n \in 1..Len(result_csv) : result_csv[n].file = f

\* The status of the row: the one future.result() returned, or the one the
\* `except Exception` branch sets.
RowStatusUnset(script, state, status) ==
    IF state = "raised" THEN "" ELSE status
RowStatus(script, state, status) ==
    IF state = "raised" THEN ErrorStatus(script) ELSE status

\* as_completed() yields a finished future; the `finally` writes its row.
WriteRow(f) ==
    /\ UNCHANGED exceptBulk
    /\ bulk_pc = "as_completed"
    /\ f \in Files
    /\ future[f] \in {"returned", "raised"}
    /\ ~Written(f)
    /\ result_csv' = Append(result_csv,
            [file |-> f,
             status |-> RowStatus(bulk_script, future[f], returned[f])])
    /\ UNCHANGED <<bulk_script, input_rows, max_concurrency, bulk_pc, future,
                   attempt, calls, slept, returned>>

\* as_completed() is exhausted and the `with` block is left.
BulkClose ==
    /\ UNCHANGED exceptBulk
    /\ bulk_pc = "as_completed"
    /\ \A f \in Files : future[f] # "none" => Written(f)
    /\ bulk_pc' = "closed"
    /\ UNCHANGED <<bulk_script, input_rows, max_concurrency, future, attempt,
                   calls, slept, returned, result_csv>>

NextBulk ==
    \/ BulkSubmit
    \/ \E f \in Files : WorkerStart(f)
    \/ \E f \in Files : AttemptSucceeds(f)
    \/ \E f \in Files : AttemptFails(f)
    \/ \E f \in Files : AttemptRaises(f)
    \/ \E f \in Files : BackoffDone(f)
    \/ \E f \in Files : WriteRow(f)
    \/ BulkClose

\* Every vendor call returns or raises, every sleep ends and every pool
\* thread and the main thread keep running.
SpecBulk == InitBulk /\ [][NextBulk]_vars /\ WF_vars(NextBulk)

C13_OneRowPerFile ==
    /\ \A f \in Files :
        Cardinality({ n \in 1..Len(result_csv) : result_csv[n].file = f }) <= 1
    /\ \A n \in 1..Len(result_csv) :
        LET f == result_csv[n].file IN
        /\ f \in Submitted(bulk_script, input_rows)
        /\ result_csv[n].status \in
                {DoneStatus(bulk_script), ErrorStatus(bulk_script)}
        /\ result_csv[n].status = DoneStatus(bulk_script)
                <=> (future[f] = "returned"
                        /\ returned[f] = DoneStatus(bulk_script))
    /\ bulk_pc = "closed" =>
        /\ Len(result_csv) = Cardinality(Submitted(bulk_script, input_rows))
        /\ bulk_script = "upload" => Len(result_csv) = Len(input_rows)
        /\ \A f \in Submitted(bulk_script, input_rows) : Written(f)

\* The second file's row was written first, and a row of a worker that
\* raised stands beside the row of a worker that succeeded.
C13_Witness ==
    /\ bulk_pc = "closed"
    /\ Len(result_csv) = 2
    /\ result_csv[1].file = 2
    /\ \E n \in 1..2 : future[result_csv[n].file] = "raised"
                        /\ result_csv[n].status = UPLOAD_ERROR
    /\ \E n \in 1..2 : result_csv[n].status = UPLOAD_DONE

\* ========================================================= news pipeline
\* news_by_topics/run_news_pipeline.py: main() runs three scripts one after
\* the other with subprocess.run(check=True) and leaves with sys.exit(1) at
\* the first step that fails.

INPUT_COMPANIES_FILE == "input/public_companies.csv"
COMPANY_IDS_OUTPUT == "output/company_ids.csv"
TOPICS_OUTPUT == "output/top_topics_to_search.csv"

\* The scripts of the three steps and the file main() expects of each
\* ("" where it checks none).
Scripts == <<"get_company_ids.py", "get_top_topic_ids.py", "get_news.py">>
Outputs == <<COMPANY_IDS_OUTPUT, TOPICS_OUTPUT, "">>

\* How a subprocess.run() call ends: the script exits with status 0, it
\* exits with another status (CalledProcessError), or run_script catches
\* another exception; the script may have written its output in each case.
RaisedInRunScript == 2
ProcessEnds == {0, 1, RaisedInRunScript}

InitPipeline ==
    /\ api_key \in BOOLEAN
    /\ logs_dir \in BOOLEAN
    /\ files \in SUBSET {INPUT_COMPANIES_FILE, COMPANY_IDS_OUTPUT, TOPICS_OUTPUT}
    /\ pipeline_pc = "import"
    /\ started = <<>>
    /\ returncodes = <<>>
    /\ exit_status = NotExited
    /\ ExceptPipelineIdle

\* sys.exit(1), or an exception nothing catches
Exit1 ==
    /\ exit_status' = 1
    /\ pipeline_pc' = "exited"

\* The module body: logging.FileHandler('logs/pipeline.log') raises
\* FileNotFoundError when logs/ does not exist.
ImportModule ==
    /\ UNCHANGED exceptPipeline
    /\ pipeline_pc = "import"
    /\ IF logs_dir
       THEN /\ pipeline_pc' = "check_prerequisites"
            /\ UNCHANGED exit_status
       ELSE Exit1
    /\ UNCHANGED <<api_key, logs_dir, files, started, returncodes>>

\* if not check_prerequisites(): sys.exit(1)
CheckPrerequisites ==
    /\ UNCHANGED exceptPipeline
    /\ pipeline_pc = "check_prerequisites"
    /\ IF api_key /\ INPUT_COMPANIES_FILE \in files
       THEN /\ pipeline_pc' = "step"
            /\ UNCHANGED exit_status
       ELSE Exit1
    /\ UNCHANGED <<api_key, logs_dir, files, started, returncodes>>

\* run_script(): subprocess.run([sys.executable, script_name] + args, ...)
\* starts the script of the next step.
StartScript ==
    /\ UNCHANGED exceptPipeline
    /\ pipeline_pc = "step"
    /\ started' = Append(started, Scripts[Len(started) + 1])
    /\ pipeline_pc' = "subprocess"
    /\ UNCHANGED <<api_key, logs_dir, files, returncodes, exit_status>>

\* os.path.exists() of the file expected of step n
OutputNotVerified(n, fs) == TRUE
OutputVerified(n, fs) == Outputs[n] = "" \/ Outputs[n] \in fs

\* subprocess.run() is over: run_script returns True or False, main()
\* verifies the output file and goes on to the next step, or exits.
ScriptEnds(end, wrote) ==
    /\ UNCHANGED exceptPipeline
    /\ pipeline_pc = "subprocess"
    /\ LET n == Len(started)
           fs == IF wrote /\ Outputs[n] # "" THEN files \cup {Outputs[n]}
                 ELSE files
       IN
        /\ files' = fs
        /\ returncodes' = Append(returncodes, end)
        /\ IF end # 0 THEN Exit1
           ELSE IF ~OutputVerified(n, fs) THEN Exit1
           ELSE IF n < Len(Scripts)
                THEN /\ pipeline_pc' = "step"
                     /\ UNCHANGED exit_status
                ELSE /\ pipeline_pc' = "exited"
                     /\ exit_status' = 0
    /\ UNCHANGED <<api_key, logs_dir, started>>

NextPipeline ==
    \/ ImportModule
    \/ CheckPrerequisites
    \/ StartScript
    \/ \E end \in ProcessEnds : \E wrote \in BOOLEAN : ScriptEnds(end, wrote)

SpecPipeline == InitPipeline /\ [][NextPipeline]_vars

\* C14: run_news_pipeline runs get_company_ids.py, get_top_topic_ids.py and
\* get_news.py strictly in that order; a step is started only if the
\* previous step exited successfully and its expected output file exists,
\* and on any failure the pipeline exits with status 1 without starting any
\* later step.
C14_StepsInOrder ==
    [][ /\ started' # started =>
            /\ Len(started) < 3
            /\ started' = Append(started,
                    <<"get_company_ids.py", "get_top_topic_ids.py",
                      "get_news.py">>[Len(started) + 1])
            /\ Len(returncodes) = Len(started)
            /\ exit_status = NotExited
            /\ api_key /\ INPUT_COMPANIES_FILE \in files
            /\ Len(started) >= 1 => returncodes[Len(started)] = 0
            /\ Len(started) = 1 => COMPANY_IDS_OUTPUT \in files
            /\ Len(started) = 2 => TOPICS_OUTPUT \in files
        /\ (pipeline_pc = "check_prerequisites"
                /\ ~(api_key /\ INPUT_COMPANIES_FILE \in files))
            => exit_status' = 1
        /\ returncodes' # returncodes =>
            LET n == Len(returncodes') IN
            /\ returncodes'[n] # 0 => exit_status' = 1
            /\ (n = 1 /\ COMPANY_IDS_OUTPUT \notin files') => exit_status' = 1
            /\ (n = 2 /\ TOPICS_OUTPUT \notin files') => exit_status' = 1
        /\ exit_status # NotExited =>
            (started' = started /\ exit_status' = exit_status)
      ]_vars

\* All three scripts ran and the pipeline ended with status 0.
C14_Witness ==
    /\ Len(started) = 3
    /\ returncodes = <<0, 0, 0>>
    /\ exit_status = 0

\* ============================================== the agent, further claims
\* The tool of task i has returned or raised.
ToolLeft(i) == Done(i) /\ search_strategies[i].tool_type \in tool_map

\* What the tool call of task i gave the node: the kind of the string it
\* returned, or "raised" when ainvoke raised.
ToolOutcome(i) ==
    LET n == CHOOSE n \in 1..Len(completed_searches) : IsResultOf(n, i)
    IN  IF completed_searches[n].success
        THEN completed_searches[n].results[1].kind
        ELSE "raised"

C19_NoQueryOnDiscardedClient ==
    [][ \A i \in Tasks :
            (i \in DOMAIN vendor_calls' /\ vendor_calls'[i] > vendor_calls[i])
                => (bigdata'[i] # None /\ bigdata'[i] = bigdata_client')
      ]_vars


\* ---------------------------------------------------------------------
\* graph.py: _clean_tool_parameters(), which the search node applies to
\* the parameters of a strategy before it invokes the tool.
\* ---------------------------------------------------------------------

\* The largest number of keys in a parameter dictionary.
MaxParams == 2

\* A Python value: its type and the characters of its literal. A string
\* is the sequence of its characters; "sup2" stands for the one character
\* SUPERSCRIPT TWO (U+00B2).
PyValue(type, literal) == [t |-> type, v |-> literal]

\* The values the parameter dictionaries of the model hold.
PyValues == {
    PyValue("NoneType", <<>>),               \* None
    PyValue("bool", <<"True">>),             \* True
    PyValue("int", <<"7">>),                 \* 7
    PyValue("float", <<"2", ".", "5">>),     \* 2.5
    PyValue("float", <<"inf">>),             \* float('inf')
    PyValue("str", <<"2", "0", "2", "4">>),  \* "2024"
    PyValue("str", <<"sup2">>),              \* the superscript two
    PyValue("str", <<"0", ".", "5">>),       \* "0.5"
    PyValue("str", <<"a", "l", "l">>),       \* "all"
    PyValue("list", <<"8-K">>),              \* ["8-K"]
    PyValue("dict", <<"{}">>)                \* {}
}

\* What a conversion raises, and the mark of a key that is left out.
ValueError == PyValue("ValueError", <<>>)
OverflowError == PyValue("OverflowError", <<>>)
Dropped == PyValue("dropped", <<>>)

AsciiDigits == {"0", "1", "2", "3", "4", "5", "6", "7", "8", "9"}

\* str.isdigit(): every character is a digit, and there is at least one.
\* The superscript digits are digits to isdigit().
isdigit(s) ==
    /\ s # <<>>
    /\ \A n \in DOMAIN s : s[n] \in AsciiDigits \cup {"sup2"}

\* int(str) accepts decimal digits only.
IntParses(s) ==
    /\ s # <<>>
    /\ \A n \in DOMAIN s : s[n] \in AsciiDigits

\* float(str) accepts digits around at most one point.
FloatParses(s) ==
    /\ \A n \in DOMAIN s : s[n] \in AsciiDigits \cup {"."}
    /\ \E n \in DOMAIN s : s[n] \in AsciiDigits
    /\ Cardinality({n \in DOMAIN s : s[n] = "."}) <= 1

\* The characters before the point: truncation toward zero.
IntegerPart(s) ==
    LET points == {n \in DOMAIN s : s[n] = "."}
    IN  IF points = {} THEN s
        ELSE SubSeq(s, 1, (CHOOSE n \in points : \A m \in points : n <= m) - 1)

\* isinstance(value, types): bool is a subclass of int.
isinstance(value, types) ==
    \/ value.t \in types
    \/ value.t = "bool" /\ "int" \in types

\* int(value)
int(value) ==
    CASE value.t = "bool" -> PyValue("int", <<"1">>)
      [] value.t = "int" -> value
      [] value.t = "float" ->
            IF value.v = <<"inf">> THEN OverflowError
            ELSE PyValue("int", IntegerPart(value.v))
      [] value.t = "str" ->
            IF IntParses(value.v) THEN PyValue("int", value.v) ELSE ValueError
      [] OTHER -> ValueError

\* float(value)
float(value) ==
    CASE value.t = "bool" -> PyValue("float", <<"1", ".", "0">>)
      [] value.t = "int" -> PyValue("float", value.v \o <<".", "0">>)
      [] value.t = "float" -> value
      [] value.t = "str" ->
            IF ~FloatParses(value.v) THEN ValueError
            ELSE IF \E n \in DOMAIN value.v : value.v[n] = "."
                 THEN PyValue("float", value.v)
                 ELSE PyValue("float", value.v \o <<".", "0">>)
      [] OTHER -> ValueError

list_keys == {"transcript_types", "section_metadata", "filing_types",
              "document_types", "sources"}
numeric_keys == {"fiscal_year", "fiscal_quarter", "max_results"}
float_keys == {"rerank_threshold"}
str_keys == {"search_type", "date_range"}
dict_keys == {"filters"}

BasicTypes == {"str", "int", "float", "bool", "list", "dict"}

\* The last branch of the loop: a key outside the five groups.
OtherKey(value) ==
    IF isinstance(value, BasicTypes) THEN value ELSE Dropped

\* The numeric branch of the loop.
NumericKey(value) ==
    IF isinstance(value, {"int", "float"}) THEN int(value)
    ELSE IF isinstance(value, {"str"}) /\ isdigit(value.v) THEN int(value)
         ELSE Dropped

\* One round of the loop: what `cleaned[key]` becomes, Dropped when the
\* key is left out, or the exception that escapes.
CleanedEntry(key, value) ==
    IF value.t = "NoneType" THEN Dropped
    ELSE IF key \in list_keys THEN
        IF isinstance(value, {"bool"}) THEN Dropped
        ELSE IF isinstance(value, {"str"}) THEN PyValue("list", value.v)
        ELSE IF isinstance(value, {"list"}) THEN value
        ELSE Dropped
    ELSE IF key \in numeric_keys THEN NumericKey(value)
    ELSE IF key \in float_keys THEN
        IF isinstance(value, {"int", "float"}) THEN float(value)
        ELSE IF isinstance(value, {"str"}) THEN
            IF float(value) = ValueError THEN Dropped ELSE float(value)
        ELSE Dropped
    ELSE IF key \in str_keys THEN
        IF isinstance(value, {"str"}) THEN value ELSE Dropped
    ELSE IF key \in dict_keys THEN
        IF isinstance(value, {"dict"}) THEN value ELSE Dropped
    ELSE OtherKey(value)

Exceptions == {ValueError, OverflowError}

\* _clean_tool_parameters(params, tool_type): the dictionary returned, or
\* the exception raised by the first round that raises one.
clean_tool_parameters(p) ==
    LET entry == [key \in DOMAIN p |-> CleanedEntry(key, p[key])]
        kept == {key \in DOMAIN p : entry[key] # Dropped}
    IN  IF \E key \in DOMAIN p : entry[key] \in Exceptions
        THEN [raised |-> TRUE, cleaned |-> [key \in {} |-> Dropped]]
        ELSE [raised |-> FALSE, cleaned |-> [key \in kept |-> entry[key]]]

\* The keys the parameter dictionaries of the model are drawn from: one of
\* each group, and entity_ids, a tool argument outside the five groups.
ModelKeys == {"filing_types", "fiscal_year", "rerank_threshold",
              "search_type", "filters", "entity_ids"}

ParamDicts ==
    UNION {[keys -> PyValues] :
              keys \in {d \in SUBSET ModelKeys : Cardinality(d) <= MaxParams}}

InitClean ==
    /\ params \in ParamDicts
    /\ clean_pc = "call"
    /\ cleaned = [key \in {} |-> Dropped]
    /\ ExceptCleanIdle

\* graph.py: cleaned_params = _clean_tool_parameters(strategy.parameters, ...)
CleanToolParameters ==
    /\ UNCHANGED exceptClean
    /\ clean_pc = "call"
    /\ LET result == clean_tool_parameters(params)
       IN  /\ clean_pc' = IF result.raised THEN "raised" ELSE "returned"
           /\ cleaned' = result.cleaned
    /\ UNCHANGED params

NextClean == CleanToolParameters

SpecClean == InitClean /\ [][NextClean]_vars

\* The type the function's branch for a key gives its value.
ExpectedType(key) ==
    CASE key \in list_keys -> "list"
      [] key \in numeric_keys -> "int"
      [] key \in float_keys -> "float"
      [] key \in str_keys -> "str"
      [] key \in dict_keys -> "dict"
      [] OTHER -> "none"

AcceptableKeys ==
    list_keys \cup numeric_keys \cup float_keys \cup str_keys \cup dict_keys

\* C16: _clean_tool_parameters returns, and its result holds only keys of
\* its groups of acceptable keys, each with a value of the type of its
\* group; every other key and every value that cannot be coerced is left
\* out rather than forwarded or raised.
C16_OnlyAcceptableKeysCoerced ==
    clean_pc \in {"returned", "raised"} =>
        /\ clean_pc = "returned"
        /\ \A key \in DOMAIN cleaned :
              /\ key \in AcceptableKeys
              /\ cleaned[key].t = ExpectedType(key)


\* ---------------------------------------------------------------------
\* utils.py: how the four content search functions build the query of
\* one entry of search_queries from its text and its filter arguments.
\* ---------------------------------------------------------------------

SearchFunctions == {"bigdata_news_search_async",
                    "bigdata_transcript_search_async",
                    "bigdata_filings_search_async",
                    "bigdata_universal_search_async"}

\* The filter arguments each function joins into the query. A filter that
\* is given holds one value the function knows (one entity id, one
\* transcript type of transcript_type_map, ...).
FiltersOf(fn) ==
    CASE fn = "bigdata_news_search_async" -> {"entity_ids", "source_ids"}
      [] fn = "bigdata_transcript_search_async" ->
            {"entity_ids", "reporting_entity_ids", "transcript_types",
             "section_metadata"}
      [] fn = "bigdata_filings_search_async" ->
            {"entity_ids", "reporting_entity_ids", "filing_types"}
      [] fn = "bigdata_universal_search_async" -> {"entity_ids"}

\* The query texts: none, blanks only, and a text.
QueryTexts == {<<>>, <<" ", " ">>, <<" ", "A", "I">>}

Whitespace == {" "}

\* str.strip()
RECURSIVE strip(_)
strip(s) ==
    IF s = <<>> THEN s
    ELSE IF Head(s) \in Whitespace THEN strip(Tail(s))
    ELSE IF s[Len(s)] \in Whitespace THEN strip(SubSeq(s, 1, Len(s) - 1))
    ELSE s

\* `if query and query.strip():`
HasText(q) == q # <<>> /\ strip(q) # <<>>

\* A query object: None, a conjunction of terms, or the TypeError raised
\* while it was built. A term names its class and the argument it is from.
NoneQuery == [state |-> "None", terms |-> <<>>]
TypeError == [state |-> "TypeError", terms |-> <<>>]
Term(cls, arg) == [cls |-> cls, arg |-> arg]
QueryOf(terms) == [state |-> "query", terms |-> terms]

\* `search_query & x`: None has no `&`, and the operand classes of the
\* client library define `&` on their left side only.
And(q, term) ==
    IF q.state = "query" THEN QueryOf(Append(q.terms, term)) ELSE TypeError

\* `if search_query is not None: search_query = search_query & x`
\* `else: search_query = x`
AndOrStart(q, term) ==
    IF q.state = "TypeError" THEN q
    ELSE IF q.state = "None" THEN QueryOf(<<term>>)
    ELSE And(q, term)

\* `if <filter>:` around one of the blocks above.
With(q, given, arg, cls) ==
    IF arg \in given THEN AndOrStart(q, Term(cls, arg)) ELSE q

\* The loop over transcript_types, for one type of transcript_type_map.
WithTranscriptTypes(q, given) ==
    IF "transcript_types" \in given
    THEN And(q, Term("TranscriptTypes", "transcript_types"))
    ELSE q

\* `search_query = Similarity(query) | Keyword(query)` or None
TextQuery(q) ==
    IF HasText(q) THEN QueryOf(<<Term("Similarity|Keyword", "query")>>)
    ELSE NoneQuery

\* The query each function has built when it reaches bigdata.search.new().
BuildQuery(fn, q, given) ==
    LET text == TextQuery(q)
        entity == With(text, given, "entity_ids", "Entity")
    IN  CASE fn = "bigdata_news_search_async" ->
                With(entity, given, "source_ids", "Source")
          [] fn = "bigdata_transcript_search_async" ->
                With(WithTranscriptTypes(
                         With(entity, given, "reporting_entity_ids", "Entity"),
                         given),
                     given, "section_metadata", "SectionMetadata")
          [] fn = "bigdata_filings_search_async" ->
                With(With(entity, given, "reporting_entity_ids",
                          "ReportingEntity"),
                     given, "filing_types", "FilingTypes")
          [] fn = "bigdata_universal_search_async" -> entity

InitQuery ==
    /\ adapter \in SearchFunctions
    /\ query \in QueryTexts
    /\ filters \in SUBSET FiltersOf(adapter)
    /\ query_pc = "call"
    /\ search_query = NoneQuery
    /\ ExceptQueryIdle

\* One round of `for query in search_queries:`: the query is built and
\* the search runs, or the `except Exception` of the round prints the
\* error and goes on to the next entry.
ExecuteSearch ==
    /\ UNCHANGED exceptQuery
    /\ query_pc = "call"
    /\ search_query' = BuildQuery(adapter, query, filters)
    /\ query_pc' = IF search_query'.state = "TypeError"
                   THEN "skipped" ELSE "searched"
    /\ UNCHANGED <<adapter, query, filters>>

NextQuery == ExecuteSearch

SpecQuery == InitQuery /\ [][NextQuery]_vars

\* C17: in each content search function a query without text (empty or
\* blanks only) that has at least one filter is executed, and its query
\* object is the conjunction of one term for each filter that was given.
C17_FilterOnlyQueryExecuted ==
    (query_pc \in {"searched", "skipped"} /\ ~HasText(query) /\ filters # {})
        => /\ query_pc = "searched"
           /\ search_query.state = "query"
           /\ Len(search_query.terms) = Cardinality(filters)
           /\ {search_query.terms[n].arg : n \in DOMAIN search_query.terms}
                 = filters


\* ---------------------------------------------------------------------
\* search_in_premium_sources.py: search_premium_sources(). The vendor's
\* answer to a search is the list of its documents, clustered documents
\* in place behind their parent, each given by its number of chunks.
\* ---------------------------------------------------------------------

\* The largest number of documents in an answer of the vendor.
MaxDocs == 2

\* The number of chunks below which the news search is widened.
ChunkThreshold == 5

DocumentTypes == {"NEWS", "FACTSET_TRANSCRIPTS", "QUARTR_TRANSCRIPTS",
                  "SEC_FILINGS"}

\* The numbers of chunks a document of the model can have.
ChunkCounts == {0, 2, 3, 5}

Responses == UNION {[1..n -> ChunkCounts] : n \in 0..MaxDocs}

\* extract_documents_from_response(documents)[0]: one Document for each
\* document of the answer, in the order of the answer.
extract_documents_from_response(search, response) ==
    [n \in DOMAIN response |->
        [document_id |-> <<search, n>>, chunks |-> response[n]]]

\* count_total_chunks(documents), which extract_documents_from_response
\* returns as its second element.
RECURSIVE count_total_chunks(_)
count_total_chunks(documents) ==
    IF documents = <<>> THEN 0
    ELSE Head(documents).chunks + count_total_chunks(Tail(documents))

\* premium_news_source_ids: Alliance News, Benzinga, Fly on the Wall, the
\* two FXStreet sources and the four MT Newswires sources.
premium_news_source_ids ==
    {"ED68DC", "5A5702", "B5235B", "86BD04", "CBEE83", "8C739A", "9D69F1",
     "CF4113", "1B95C1"}

\* quartr_transcripts_source_ids
quartr_transcripts_source_ids == {"58C81A", "E38350", "28DED6", "DA0F7F"}

\* The source ids of a document type: the chain of tests that
\* get_sources_for_document_types and its negative twin both make, with
\* FS_TRANSCRIPTS and SEC_FILINGS for the types of one source.
SourceIdsOf(doc_type) ==
    CASE doc_type = "NEWS" -> premium_news_source_ids
      [] doc_type = "FACTSET_TRANSCRIPTS" -> {"D4B903"}
      [] doc_type = "QUARTR_TRANSCRIPTS" -> quartr_transcripts_source_ids
      [] doc_type = "SEC_FILINGS" -> {"E50739"}
      [] OTHER -> {}

\* get_negative_sources_for_document_types(document_types): the sources
\* whose negations ~Source(id) the function returns.
get_negative_sources_for_document_types(types) ==
    UNION {SourceIdsOf(doc_type) : doc_type \in types}

\* Whether a document of the source satisfies the filter that
\* search_premium_sources builds of the negations: it joins them with
\* `|`, so the document has to satisfy one of them; without negations
\* there is no source filter.
MatchesNegativeFilter(source, negated) ==
    negated = {} \/ \E id \in negated : source # id

InitPremium ==
    /\ document_types \in SUBSET DocumentTypes
    /\ primary_response = <<>>
    /\ secondary_response = <<>>
    /\ premium_pc = "call"
    /\ search_calls = <<>>
    /\ negative_source_filter = {}
    /\ processed_documents = <<>>
    /\ secondary_search_required = FALSE
    /\ ExceptPremiumIdle

\* "Perform first search" and "Extract documents from first search".
PrimarySearch ==
    /\ UNCHANGED exceptPremium
    /\ premium_pc = "call"
    /\ \E response \in Responses :
          /\ primary_response' = response
          /\ processed_documents' =
                extract_documents_from_response("primary", response)
    /\ search_calls' = Append(search_calls, "primary")
    /\ premium_pc' = "primary_done"
    /\ UNCHANGED <<document_types, secondary_response,
                   negative_source_filter, secondary_search_required>>

\* The test is passed when the primary search found no more chunks than
\* the threshold.
SecondaryNeededAtMost(types, first_search_chunks) ==
    "NEWS" \in types /\ first_search_chunks <= ChunkThreshold

\* `if "NEWS" in document_types and first_search_chunks < 5:`
SecondaryNeeded(types, first_search_chunks) ==
    "NEWS" \in types /\ first_search_chunks < ChunkThreshold

\* The branch of the test: the search with the negative sources, whose
\* documents are appended, and the return.
SecondarySearch ==
    /\ UNCHANGED exceptPremium
    /\ premium_pc = "primary_done"
    /\ SecondaryNeeded(document_types,
                       count_total_chunks(processed_documents))
    /\ secondary_search_required' = TRUE
    /\ \E response \in Responses :
          /\ secondary_response' = response
          /\ processed_documents' = processed_documents \o
                extract_documents_from_response("secondary", response)
    /\ search_calls' = Append(search_calls, "secondary")
    /\ negative_source_filter' =
          get_negative_sources_for_document_types(document_types)
    /\ premium_pc' = "returned"
    /\ UNCHANGED <<document_types, primary_response>>

\* The else branch of the test, and the return.
SingleSearch ==
    /\ UNCHANGED exceptPremium
    /\ premium_pc = "primary_done"
    /\ ~SecondaryNeeded(document_types,
                        count_total_chunks(processed_documents))
    /\ premium_pc' = "returned"
    /\ UNCHANGED <<document_types, primary_response, secondary_response,
                   search_calls, negative_source_filter,
                   processed_documents, secondary_search_required>>

NextPremium ==
    \/ PrimarySearch
    \/ SecondarySearch
    \/ SingleSearch

SpecPremium == InitPremium /\ [][NextPremium]_vars

\* The chunks of the answer to the primary search.
PrimaryChunks ==
    count_total_chunks(
        extract_documents_from_response("primary", primary_response))

MaxCompanies == 2

\* The lookup passes of main(), in its order.
Passes == <<"isin", "cusip", "sedol", "listing">>

Identifiers == {Passes[n] : n \in DOMAIN Passes}

\* After the last pass main() writes the output, and is done.
WritePass == Len(Passes) + 1
DonePass == Len(Passes) + 2

\* company_record['ravenpack_id']: the key is not set, it is None, or it
\* is the ID of the company, an ID of its own for each row.
Unset == "unset"
NoneId == "None"
RavenpackIds == <<"D8442A", "228D42", "4A6F00">>
RavenpackId(c) == RavenpackIds[c]

\* `if company.get('ravenpack_id')`
Truthy(id) == id \notin {Unset, NoneId, ""}

\* read_companies_csv() keeps the rows that have an identifier.
CompanyRows ==
    UNION {[1..n -> (SUBSET Identifiers) \ {{}}] : n \in 0..MaxCompanies}

\* companies_by_isin, companies_by_cusip, ...: the rows with the identifier.
CompaniesBy(kind) == {c \in DOMAIN companies : kind \in companies[c]}

InitCompany ==
    /\ companies \in CompanyRows
    /\ lookup_pass = 1
    /\ ravenpack_id = [c \in DOMAIN companies |-> Unset]
    /\ all_companies = <<>>
    /\ seen_companies = {}
    /\ found_by = {}
    /\ company_ids_csv = <<>>
    /\ ExceptCompanyIdle

\* `if companies_by_isin:` and its like, when the array is empty.
PassSkipped ==
    /\ UNCHANGED exceptCompany
    /\ lookup_pass \in DOMAIN Passes
    /\ CompaniesBy(Passes[lookup_pass]) = {}
    /\ lookup_pass' = lookup_pass + 1
    /\ UNCHANGED <<companies, ravenpack_id, all_companies, seen_companies,
                   found_by, company_ids_csv>>

\* The else branch of a pass: company['ravenpack_id'] = None
NotFound(id) == NoneId

\* add_company_if_unique(company) for the rows of a pass, in their order.
AddCompaniesIfUnique(members) ==
    LET rows == [c \in DOMAIN companies |-> c]
        IsNew(c) == c \in members /\ c \notin seen_companies
    IN  all_companies \o SelectSeq(rows, IsNew)

\* A pass whose API call returns the mapping for the identifiers in
\* `found`: the loop over the rows of the pass.
PassReturns ==
    /\ UNCHANGED exceptCompany
    /\ lookup_pass \in DOMAIN Passes
    /\ LET kind == Passes[lookup_pass]
           members == CompaniesBy(kind)
       IN  /\ members # {}
           /\ \E found \in SUBSET members :
                 /\ ravenpack_id' =
                       [c \in DOMAIN companies |->
                           IF c \in found THEN RavenpackId(c)
                           ELSE IF c \in members THEN NotFound(ravenpack_id[c])
                           ELSE ravenpack_id[c]]
                 /\ found_by' = found_by \cup {<<c, kind>> : c \in found}
           /\ all_companies' = AddCompaniesIfUnique(members)
           /\ seen_companies' = seen_companies \cup members
    /\ lookup_pass' = lookup_pass + 1
    /\ UNCHANGED <<companies, company_ids_csv>>

\* A pass whose API call raises: `except Exception as api_error`.
PassRaises ==
    /\ UNCHANGED exceptCompany
    /\ lookup_pass \in DOMAIN Passes
    /\ CompaniesBy(Passes[lookup_pass]) # {}
    /\ lookup_pass' = lookup_pass + 1
    /\ UNCHANGED <<companies, ravenpack_id, all_companies, seen_companies,
                   found_by, company_ids_csv>>

\* write_output_csv(all_companies, output_file), one row each.
OutputRow(c) ==
    [company |-> c,
     ravenpack_id |-> IF Truthy(ravenpack_id[c]) THEN ravenpack_id[c] ELSE ""]

\* "Write output CSV file": `if all_companies:` and its else.
WriteOutputCsv ==
    /\ UNCHANGED exceptCompany
    /\ lookup_pass = WritePass
    /\ company_ids_csv' =
          [n \in DOMAIN all_companies |-> OutputRow(all_companies[n])]
    /\ lookup_pass' = DonePass
    /\ UNCHANGED <<companies, ravenpack_id, all_companies, seen_companies,
                   found_by>>

NextCompany ==
    \/ PassSkipped
    \/ PassReturns
    \/ PassRaises
    \/ WriteOutputCsv

SpecCompany == InitCompany /\ [][NextCompany]_vars

\* C20: when main() is done, every company for which some lookup pass
\* returned a RavenPack ID has a row in the output with that ID; a later
\* pass that finds nothing for it has not erased the ID.
C20_FoundIdIsWritten ==
    lookup_pass = DonePass =>
        \A c \in DOMAIN companies :
            (\E kind \in Identifiers : <<c, kind>> \in found_by) =>
                \E n \in DOMAIN company_ids_csv :
                    /\ company_ids_csv[n].company = c
                    /\ company_ids_csv[n].ravenpack_id = RavenpackId(c)


\* ---------------------------------------------------------------------
\* company_daily_news/company_daily_news.py: main(), from the loop over
\* the dates to the end of the statistics. A date is given by its place
\* in the list; a result is given by the keys of its dictionary and its
\* number of documents.
\* ---------------------------------------------------------------------

\* The largest number of dates of a run.
MaxDates == 3

\* The numbers of documents collected on a date.
DateDocuments == {0, 1, 2}

\* The dictionary stored for a date that was processed (lines 501-509).
DateResult(documents) ==
    [keys |-> {"news_collection_result", "processing_time",
               "total_documents", "total_entities",
               "entities_with_documents", "percentage_entities_with_docs",
               "search_usage"},
     total_documents |-> documents,
     error |-> FALSE]

\* The dictionary stored for a date whose processing raised (539-546).
ErrorResult ==
    [keys |-> {"summary", "total_documents", "total_entities",
               "entities_with_documents", "percentage_entities_with_docs",
               "search_usage"},
     total_documents |-> 0,
     error |-> TRUE]

\* The keys a line of the per-date breakdown reads with result[...];
\* search_usage and percentage_entities_with_docs are read with get().
SubscriptedKeys == {"processing_time", "total_documents"}

InitDaily ==
    /\ dates \in {[i \in 1..n |-> i] : n \in 1..MaxDates}
    /\ date_index = 1
    /\ daily_results = <<>>
    /\ total_documents = 0
    /\ daily_pc = "dates"
    /\ overall_logged = FALSE
    /\ per_date_lines = <<>>
    /\ daily_exit = NotExited
    /\ ExceptDailyIdle

\* One round of the loop over the dates whose try block completes.
ProcessDate ==
    /\ UNCHANGED exceptDaily
    /\ daily_pc = "dates"
    /\ date_index \in DOMAIN dates
    /\ \E documents \in DateDocuments :
          /\ daily_results' = Append(daily_results, DateResult(documents))
          /\ total_documents' = total_documents + documents
    /\ date_index' = date_index + 1
    /\ UNCHANGED <<dates, daily_pc, overall_logged, per_date_lines,
                   daily_exit>>

\* One round whose try block raises: `except Exception as e:` stores the
\* error result and continues.
ProcessDateRaises ==
    /\ UNCHANGED exceptDaily
    /\ daily_pc = "dates"
    /\ date_index \in DOMAIN dates
    /\ daily_results' = Append(daily_results, ErrorResult)
    /\ date_index' = date_index + 1
    /\ UNCHANGED <<dates, total_documents, daily_pc, overall_logged,
                   per_date_lines, daily_exit>>

\* After the loop: the overall statistics and the head of the breakdown.
OverallStatistics ==
    /\ UNCHANGED exceptDaily
    /\ daily_pc = "dates"
    /\ date_index = Len(dates) + 1
    /\ overall_logged' = TRUE
    /\ daily_pc' = "per_date"
    /\ UNCHANGED <<dates, date_index, daily_results, total_documents,
                   per_date_lines, daily_exit>>

\* The result whose line of the breakdown is next.
NextLine == Len(per_date_lines) + 1

\* One round of `for date, result in daily_results.items():`.
PerDateLine ==
    /\ UNCHANGED exceptDaily
    /\ daily_pc = "per_date"
    /\ NextLine \in DOMAIN daily_results
    /\ SubscriptedKeys \subseteq daily_results[NextLine].keys
    /\ per_date_lines' = Append(per_date_lines, NextLine)
    /\ UNCHANGED <<dates, date_index, daily_results, total_documents,
                   daily_pc, overall_logged, daily_exit>>

\* A round that reads a key the result does not have: the KeyError is
\* caught by `except Exception as e:` of main(), which exits with 1.
PerDateLineRaises ==
    /\ UNCHANGED exceptDaily
    /\ daily_pc = "per_date"
    /\ NextLine \in DOMAIN daily_results
    /\ ~(SubscriptedKeys \subseteq daily_results[NextLine].keys)
    /\ daily_pc' = "done"
    /\ daily_exit' = 1
    /\ UNCHANGED <<dates, date_index, daily_results, total_documents,
                   overall_logged, per_date_lines>>

\* The averages under the breakdown, and the end of main().
PerDateEnd ==
    /\ UNCHANGED exceptDaily
    /\ daily_pc = "per_date"
    /\ NextLine = Len(daily_results) + 1
    /\ daily_pc' = "done"
    /\ daily_exit' = 0
    /\ UNCHANGED <<dates, date_index, daily_results, total_documents,
                   overall_logged, per_date_lines>>

NextDaily ==
    \/ ProcessDate
    \/ ProcessDateRaises
    \/ OverallStatistics
    \/ PerDateLine
    \/ PerDateLineRaises
    \/ PerDateEnd

SpecDaily == InitDaily /\ [][NextDaily]_vars

\* C21: a date whose processing raised has an error result, the dates
\* after it are processed all the same, and the run ends with the overall
\* statistics and a line of the per-date breakdown for every date, without
\* an error.
C21_FailedDateDoesNotStopRun ==
    /\ \A d \in DOMAIN daily_results :
          daily_results[d].error => daily_results[d].total_documents = 0
    /\ daily_pc # "dates" => Len(daily_results) = Len(dates)
    /\ daily_pc = "done" =>
          /\ overall_logged
          /\ per_date_lines = dates
          /\ daily_exit = 0


\* C22: the source filter of the secondary search lets through no
\* document of a premium source of the selected document types.
C22_NegativeFilterExcludesPremiumSources ==
    "secondary" \in {search_calls[n] : n \in DOMAIN search_calls} =>
        \A doc_type \in document_types :
            \A source \in SourceIdsOf(doc_type) :
                ~MatchesNegativeFilter(source, negative_source_filter)


\* ---------------------------------------------------------------------
\* retrieve_entire_articles/retrieve_entire_articles.py:
\* download_annotated_documents() and its workers, one for each document
\* of the search result (clustered documents included) of one date. A
\* headline is the sequence of its characters.
\* ---------------------------------------------------------------------

\* The largest number of documents of a search result.
MaxDownloads == 2

\* `[:50]`, the length a cleaned headline is cut to.
HeadlineLimit == 50

\* The characters of the model for which str.isalnum() is true.
Alnum == {"A", "I", "a", "x", "y"}

\* A headline of 50 characters.
LongHeadline == [n \in 1..HeadlineLimit |-> "a"]

\* The headlines of the model: "AI", "AI!", "A I", "A_I", and two that
\* differ in their 51st character only.
Headlines ==
    {<<"A", "I">>, <<"A", "I", "!">>, <<"A", " ", "I">>, <<"A", "_", "I">>,
     LongHeadline \o <<"x">>, LongHeadline \o <<"y">>}

\* "".join(c for c in headline if c.isalnum() or c in (' ', '-', '_'))
RECURSIVE KeepFilenameChars(_)
KeepFilenameChars(s) ==
    IF s = <<>> THEN s
    ELSE IF Head(s) \in Alnum \cup {" ", "-", "_"}
         THEN <<Head(s)>> \o KeepFilenameChars(Tail(s))
         ELSE KeepFilenameChars(Tail(s))

\* str.rstrip()
RECURSIVE rstrip(_)
rstrip(s) ==
    IF s # <<>> /\ s[Len(s)] \in Whitespace
    THEN rstrip(SubSeq(s, 1, Len(s) - 1))
    ELSE s

\* str.replace(' ', '_')
ReplaceSpaces(s) == [n \in DOMAIN s |-> IF s[n] = " " THEN "_" ELSE s[n]]

\* clean_headline, lines 552-553.
CleanHeadline(headline) ==
    LET replaced == ReplaceSpaces(rstrip(KeepFilenameChars(headline)))
    IN  SubSeq(replaced, 1,
               IF Len(replaced) < HeadlineLimit THEN Len(replaced)
               ELSE HeadlineLimit)

\* file_path: the date folder is the same for all documents of the call,
\* and so is the date in the name.
FilePath(d) == <<"date", "_">> \o CleanHeadline(doc_headlines[d]) \o <<".json">>

Docs == DOMAIN doc_headlines

InitDownload ==
    /\ doc_headlines \in UNION {[1..n -> Headlines] : n \in 0..MaxDownloads}
    /\ worker_pc = [d \in DOMAIN doc_headlines |-> "none"]
    /\ news_data = <<>>
    /\ successful_downloads = 0
    /\ failed_downloads = 0
    /\ download_pc = "call"
    /\ ExceptDownloadIdle

\* `if not documents: return`
NoDocuments ==
    /\ UNCHANGED exceptDownload
    /\ download_pc = "call"
    /\ Docs = {}
    /\ download_pc' = "done"
    /\ UNCHANGED <<doc_headlines, worker_pc, news_data, successful_downloads,
                   failed_downloads>>

\* The pool is created and a task is submitted for every document; the
\* pool has more workers (20) than the model has documents.
SubmitDownloads ==
    /\ UNCHANGED exceptDownload
    /\ download_pc = "call"
    /\ Docs # {}
    /\ worker_pc' = [d \in Docs |-> "submitted"]
    /\ download_pc' = "collect"
    /\ UNCHANGED <<doc_headlines, news_data, successful_downloads,
                   failed_downloads>>

\* download_single_document: doc.download_annotated_dict() returns.
DownloadAnnotatedDict(d) ==
    /\ UNCHANGED exceptDownload
    /\ worker_pc[d] = "submitted"
    /\ worker_pc' = [worker_pc EXCEPT ![d] = "downloaded"]
    /\ UNCHANGED <<doc_headlines, news_data, successful_downloads,
                   failed_downloads, download_pc>>

\* download_single_document: doc.download_annotated_dict() raises, and
\* the worker returns (False, id, error).
DownloadFails(d) ==
    /\ UNCHANGED exceptDownload
    /\ worker_pc[d] = "submitted"
    /\ worker_pc' = [worker_pc EXCEPT ![d] = "failed"]
    /\ UNCHANGED <<doc_headlines, news_data, successful_downloads,
                   failed_downloads, download_pc>>

\* The file at a path: the workers that opened it, and the documents
\* dumped into it since it was last opened for writing.
WritersOf(path) ==
    IF path \in DOMAIN news_data THEN news_data[path].writers ELSE <<>>

\* open(file_path, 'w') creates the file or cuts it to nothing.
OpenFile(d, path) ==
    /\ UNCHANGED exceptDownload
    /\ worker_pc[d] = "downloaded"
    /\ news_data' =
          [p \in DOMAIN news_data \cup {path} |->
              IF p = path
              THEN [writers |-> Append(WritersOf(path), d), content |-> <<>>]
              ELSE news_data[p]]
    /\ worker_pc' = [worker_pc EXCEPT ![d] = "opened"]
    /\ UNCHANGED <<doc_headlines, successful_downloads, failed_downloads,
                   download_pc>>

\* json.dump(annotated_doc, jsonfile), and the return of (True, ...).
DumpJson(d, path) ==
    /\ UNCHANGED exceptDownload
    /\ worker_pc[d] = "opened"
    /\ news_data' = [news_data EXCEPT
                        ![path].content = Append(@, d)]
    /\ worker_pc' = [worker_pc EXCEPT ![d] = "succeeded"]
    /\ UNCHANGED <<doc_headlines, successful_downloads, failed_downloads,
                   download_pc>>

\* One round of `for future in as_completed(future_to_doc):`.
CollectResult(d) ==
    /\ UNCHANGED exceptDownload
    /\ download_pc = "collect"
    /\ worker_pc[d] \in {"succeeded", "failed"}
    /\ IF worker_pc[d] = "succeeded"
       THEN /\ successful_downloads' = successful_downloads + 1
            /\ UNCHANGED failed_downloads
       ELSE /\ failed_downloads' = failed_downloads + 1
            /\ UNCHANGED successful_downloads
    /\ worker_pc' = [worker_pc EXCEPT ![d] = "collected"]
    /\ UNCHANGED <<doc_headlines, news_data, download_pc>>

\* "Log final results" and the return.
DownloadCompleted ==
    /\ UNCHANGED exceptDownload
    /\ download_pc = "collect"
    /\ \A d \in Docs : worker_pc[d] = "collected"
    /\ download_pc' = "done"
    /\ UNCHANGED <<doc_headlines, worker_pc, news_data, successful_downloads,
                   failed_downloads>>

NextDownload ==
    \/ NoDocuments
    \/ SubmitDownloads
    \/ \E d \in Docs : DownloadAnnotatedDict(d)
    \/ \E d \in Docs : DownloadFails(d)
    \/ \E d \in Docs : OpenFile(d, FilePath(d))
    \/ \E d \in Docs : DumpJson(d, FilePath(d))
    \/ \E d \in Docs : CollectResult(d)
    \/ DownloadCompleted

SpecDownload == InitDownload /\ [][NextDownload]_vars

\* C23: no two documents are written to the same path, whatever the
\* order in which the workers run, and when the call is done there are as
\* many files as successful downloads.
C23_OneFilePerDownloadedDocument ==
    /\ \A path \in DOMAIN news_data : Len(news_data[path].writers) <= 1
    /\ download_pc = "done" =>
          Cardinality(DOMAIN news_data) = successful_downloads

====
